---- MODULE Spec2Model ----
(***************************************************************************)
(* The customization waiter of vsphere/event_helper.go as a state machine. *)
(*                                                                         *)
(* Three threads of control share one waiter object:                       *)
(*   - the caller, which constructs the waiter, issues the customization   *)
(*     operation, blocks on Done() and then reads Err();                   *)
(*   - the waiter goroutine started by the constructor (event_helper.go    *)
(*     55-58), which runs wait(), stores its result in w.err and closes    *)
(*     w.done;                                                             *)
(*   - the subscriber goroutine started by wait() (event_helper.go 89-91), *)
(*     which runs mgr.Events with the callback cb and sends the value      *)
(*     Events returns on the buffered channel mgrErr.                      *)
(*                                                                         *)
(* mgr.Events belongs to the govmomi library.  It is modelled by its       *)
(* contract with the callback: it hands pages of events to cb, returns the *)
(* error cb returns, and may otherwise return any error value (nil, a      *)
(* transport error, or the cancellation error of its context).             *)
(*                                                                         *)
(* Time is a discrete clock.  The timeout context of wait() expires when   *)
(* the clock reaches its deadline.                                         *)
(***************************************************************************)
EXTENDS Integers, Sequences, FiniteSets, TLC

(***************************************************************************)
(* Bounds of the model.                                                    *)
(***************************************************************************)
\* Total number of events the event source delivers, over all pages.
MaxEvents == 3
\* Last instant of the discrete clock.
MaxTime == 4
\* Number of folders the inventory can hold under one root folder.
MaxFolders == 2
\* Number of segments of a relative folder path.
MaxDepth == 2
\* Number of operations run on the folder resource.
MaxOps == 2

(***************************************************************************)
(* Program constants.                                                      *)
(***************************************************************************)
\* defaultAPITimeout, in clock ticks (the timeout of the waiting context).
defaultAPITimeout == 2

(***************************************************************************)
(* Values.                                                                 *)
(***************************************************************************)
\* Go's error interface: nil, or an error carrying a text.
Nil == [isNil |-> TRUE, text |-> ""]

Error(t) == [isNil |-> FALSE, text |-> t]

\* FullFormattedMessage values of CustomizationFailed events.
Msgs == {"customization failed", "sysprep error"}

eventTypeCustomizationSucceeded == "CustomizationSucceeded"

eventTypeCustomizationFailed == "CustomizationFailed"

eventTypeOther == "VmPoweredOnEvent"

\* types.BaseEvent values a page can hold.
Succeeded == [type |-> eventTypeCustomizationSucceeded, msg |-> ""]

Failed(m) == [type |-> eventTypeCustomizationFailed, msg |-> m]

Other == [type |-> eventTypeOther, msg |-> ""]

BaseEvents == {Succeeded, Other} \cup {Failed(m) : m \in Msgs}

\* Non-empty pages of at most n events.
Pages(n) == UNION {[1..k -> BaseEvents] : k \in 1..n}

\* The error of the timeout branch of the select in wait().
TimeoutErr == Error("timeout waiting for customization to complete")

\* An error of the event subscription itself (connection, session, setup).
TransportErr == Error("ServerFaultCode: session is not authenticated")

\* What Events returns once its context has been cancelled.
CanceledErr == Error("context canceled")

\* No path helper is being called.
NoCall == [fn |-> "none"]

\* Nothing has been returned.
NoResult == [fn |-> "none"]

\* The resource data before the configuration has been applied to it.
NoResource == [id |-> 0, type |-> "none", datacenter_id |-> <<>>, path |-> <<>>]

\* A managed object reference that refers to no folder of the inventory.
NoFolder == [exists |-> FALSE, name |-> <<>>, parent |-> 0]

\* No operation of the folder resource is running.
NoOp == [kind |-> "none", pc |-> "none", path |-> <<>>, tags |-> FALSE,
         oldpa |-> -1, newpa |-> -1, checked |-> "no"]

\* No operation of the folder resource has returned yet.
NoOutcome == [kind |-> "none", at |-> "none", err |-> Nil]

VARIABLES
    callerPc,       \* position of the caller
    observed,       \* <<e>> once the caller read e from Err() after Done()
    waitStart,      \* clock value at which the caller began blocking, or -1
    subAtCustomize, \* had mgr.Events been called when the caller customized
    done,           \* w.done: "none" before construction, "open", "closed"
    doneCloses,     \* number of close(w.done) executed
    err,            \* w.err
    errWrites,      \* number of assignments to w.err
    g1,             \* position of the waiter goroutine
    chosen,         \* the case the select of wait() took, or "none"
    ret,            \* the value wait() returns
    success,        \* the success channel: "none", "open", "closed"
    successCloses,  \* number of close(success) executed
    mgrErr,         \* the buffered channel mgrErr (capacity 1)
    pctx,           \* the subscriber's context: "none", "live", "cancelled"
    armedAt,        \* clock value at which the waiting context was created, or -1
    deadline,       \* deadline of the waiting context, or -1
    decidedAt,      \* clock value at which the select returned, or -1
    g2,             \* position of the subscriber goroutine
    eventsCalls,    \* number of calls of mgr.Events
    eventsRet,      \* <<v>> once mgr.Events returned v
    page,           \* events of the current page cb has not looked at yet
    nEvents,        \* number of events delivered so far
    seen,           \* the events cb has looked at, in order
    early,          \* history: which events cb looked at before the deadline,
                    \* what Events returned before the deadline, and whether
                    \* Events returned before the select of wait() did
    panicked,       \* the process died of a run-time panic
    now,            \* the clock
    pathCall,       \* the path helper being called and its arguments
    pathOut,        \* what the call returned
    resourceData,   \* d: id, type, datacenter_id and path of the folder resource
    inv,            \* the remote inventory: the folders under the root folder
                    \* of the resource's datacenter and type
    op,             \* the running operation of the folder resource, its
                    \* position and its locals
    issued,         \* the remote mutations the running or last operation
                    \* has issued, in order
    outcome,        \* what the last operation returned, and from which step
    atStart,        \* history: the folder as it was when the operation began
    collateral,     \* history: number of folders the last Destroy removed
                    \* beside the folder it was issued for
    opsStarted      \* number of operations started on the folder resource

vars == <<callerPc, observed, waitStart, subAtCustomize, done, doneCloses, err,
          errWrites, g1, chosen, ret, success, successCloses, mgrErr, pctx,
          armedAt, deadline, decidedAt, g2, eventsCalls, eventsRet, page, nEvents, seen,
          early, panicked, now, pathCall, pathOut, resourceData, inv, op,
          issued, outcome, atStart, collateral, opsStarted>>

pathVars == <<pathCall, pathOut>>

folderVars == <<resourceData, inv, op, issued, outcome, atStart, collateral, opsStarted>>

callerVars == <<callerPc, observed, waitStart, subAtCustomize>>

waiterVars == <<done, doneCloses, err, errWrites>>

waitVars == <<g1, chosen, ret, decidedAt>>

timerVars == <<armedAt, deadline>>

chanVars == <<success, successCloses, mgrErr, pctx>>

eventsVars == <<g2, eventsCalls, eventsRet, page, nEvents, seen>>

(***************************************************************************)
(* Helpers.                                                                *)
(***************************************************************************)
\* The waiting context was created and its deadline has been reached.
DeadlinePassed == deadline # -1 /\ now >= deadline

\* The subscription is active: mgr.Events has been called and has not returned.
SubscriptionActive == g2 = "active"

\* Mutant of Deadline: the waiting context expires one tick early.
Deadline_Short(t) == t + defaultAPITimeout - 1

\* Deadline of a context created with the timeout at clock value t.
Deadline(t) == t + defaultAPITimeout

\* Mutant of ErrorsNew: a fixed text instead of the event's message.
ErrorsNew_Generic(m) == Error("guest customization did not complete")

\* errors.New(e.GetEvent().FullFormattedMessage)
ErrorsNew(m) == Error(m)

\* Mutant of CbAction: every event that is not a failure counts as success.
CbAction_SuccessByDefault(e) ==
    IF e.type = eventTypeCustomizationFailed THEN "return error"
    ELSE "close success"

\* What one iteration of cb's loop does with an event.
CbAction(e) ==
    IF e.type = eventTypeCustomizationFailed THEN "return error"
    ELSE IF e.type = eventTypeCustomizationSucceeded THEN "close success"
    ELSE "continue"

\* Mutant of SelectResult: the error received from mgrErr is replaced by a
\* new error instead of being returned as it is.
SelectResult_Wrapped(case, v) ==
    CASE case = "mgrErr" ->
             IF v.isNil THEN v ELSE Error("event subscription failed")
      [] case = "timeout" -> TimeoutErr
      [] case = "success" -> Nil

\* The value wait() returns for the select case taken; v is the value
\* received from mgrErr.
SelectResult(case, v) ==
    CASE case = "mgrErr" -> v
      [] case = "timeout" -> TimeoutErr
      [] case = "success" -> Nil

\* The cases of the select that are ready when wait() reaches it.  The
\* waiting context has just been created, so its Done channel is not ready.
ReadyCases ==
    (IF mgrErr # <<>> THEN {"mgrErr"} ELSE {}) \cup
    (IF success = "closed" THEN {"success"} ELSE {})

\* The select of wait() returns through `case` at clock value t.
Decide(case, v, t) ==
    /\ g1' = "decided"
    /\ chosen' = case
    /\ ret' = SelectResult(case, v)
    /\ decidedAt' = t

\* The select of wait() has returned.
SelectReturned == g1 \in {"decided", "returned", "errset", "exited"}

\* The history h, once mgr.Events has returned v.
NoteReturn(h, v) ==
    [h EXCEPT !.ret = IF ~DeadlinePassed THEN <<v>> ELSE @,
              !.retBeforeSelect = ~SelectReturned]

\* Record that mgr.Events returned v.
Returned(v) ==
    /\ eventsRet' = <<v>>
    /\ early' = NoteReturn(early, v)

Init ==
    /\ callerPc = "start"
    /\ observed = <<>>
    /\ waitStart = -1
    /\ subAtCustomize = FALSE
    /\ done = "none"
    /\ doneCloses = 0
    /\ err = Nil
    /\ errWrites = 0
    /\ g1 = "none"
    /\ chosen = "none"
    /\ ret = Nil
    /\ success = "none"
    /\ successCloses = 0
    /\ mgrErr = <<>>
    /\ pctx = "none"
    /\ armedAt = -1
    /\ deadline = -1
    /\ decidedAt = -1
    /\ g2 = "none"
    /\ eventsCalls = 0
    /\ eventsRet = <<>>
    /\ page = <<>>
    /\ nEvents = 0
    /\ seen = <<>>
    /\ early = [succeeded |-> FALSE, failed |-> FALSE, ret |-> <<>>,
                retBeforeSelect |-> FALSE]
    /\ panicked = FALSE
    /\ now = 0
    /\ pathCall = NoCall
    /\ pathOut = NoResult
    /\ resourceData = NoResource
    /\ inv = [i \in 1..MaxFolders |-> NoFolder]
    /\ op = NoOp
    /\ issued = <<>>
    /\ outcome = NoOutcome
    /\ atStart = NoFolder
    /\ collateral = 0
    /\ opsStarted = 0

(***************************************************************************)
(* The caller.                                                             *)
(***************************************************************************)
\* newVirtualMachineCustomizationWaiter: make the waiter, start the waiter
\* goroutine, return.
NewWaiter ==
    /\ ~panicked
    /\ UNCHANGED <<pathVars, folderVars>>
    /\ callerPc = "start"
    /\ callerPc' = "constructed"
    /\ done' = "open"
    /\ g1' = "spawned"
    /\ UNCHANGED <<observed, waitStart, subAtCustomize, doneCloses, err,
                   errWrites, chosen, ret, decidedAt, timerVars, chanVars,
                   eventsVars, early, panicked, now>>

\* The caller issues the customization operation the waiter is to track.
Customize ==
    /\ ~panicked
    /\ UNCHANGED <<pathVars, folderVars>>
    /\ callerPc = "constructed"
    /\ callerPc' = "customized"
    /\ subAtCustomize' = (eventsCalls > 0)
    /\ UNCHANGED <<observed, waitStart, waiterVars, waitVars, timerVars,
                   chanVars,
                   eventsVars, early, panicked, now>>

\* The caller begins to block on <-w.Done().
BeginWait ==
    /\ ~panicked
    /\ UNCHANGED <<pathVars, folderVars>>
    /\ callerPc = "customized"
    /\ callerPc' = "waiting"
    /\ waitStart' = now
    /\ UNCHANGED <<observed, subAtCustomize, waiterVars, waitVars, timerVars,
                   chanVars,
                   eventsVars, early, panicked, now>>

\* The receive from the closed w.done returns and the caller reads w.Err().
ReadErr ==
    /\ ~panicked
    /\ UNCHANGED <<pathVars, folderVars>>
    /\ callerPc = "waiting"
    /\ done = "closed"
    /\ callerPc' = "finished"
    /\ observed' = <<err>>
    /\ UNCHANGED <<waitStart, subAtCustomize, waiterVars, waitVars, timerVars,
                   chanVars,
                   eventsVars, early, panicked, now>>

(***************************************************************************)
(* The waiter goroutine: w.err = w.wait(client, vm); close(w.done).        *)
(***************************************************************************)
\* wait(), up to the start of the subscriber goroutine: make the success
\* channel, mgrErr and the subscriber's context, then `go func`.
WaitSetup ==
    /\ ~panicked
    /\ UNCHANGED <<pathVars, folderVars>>
    /\ g1 = "spawned"
    /\ g1' = "running"
    /\ success' = "open"
    /\ pctx' = "live"
    /\ g2' = "spawned"
    /\ UNCHANGED <<callerVars, waiterVars, chosen, ret, decidedAt, timerVars,
                   successCloses, mgrErr, eventsCalls, eventsRet, page,
                   nEvents, seen, early, panicked, now>>

\* wait(): create the waiting context and enter the select.  A select with
\* ready cases takes one of them, chosen arbitrarily; with none it blocks,
\* and the first of its channels to become ready then decides it.  The
\* goroutine does nothing between the two statements and the timeout is
\* positive, so they are one step.
WaitSelect ==
    /\ ~panicked
    /\ UNCHANGED <<pathVars, folderVars>>
    /\ g1 = "running"
    /\ armedAt' = now
    /\ deadline' = Deadline(now)
    /\ IF ReadyCases = {}
       THEN /\ g1' = "blocked"
            /\ UNCHANGED <<chosen, ret, decidedAt, mgrErr>>
       ELSE \E c \in ReadyCases :
              /\ Decide(c, IF c = "mgrErr" THEN Head(mgrErr) ELSE Nil, now)
              /\ mgrErr' = IF c = "mgrErr" THEN <<>> ELSE mgrErr
    /\ UNCHANGED <<callerVars, waiterVars, success, successCloses, pctx,
                   eventsVars, early, panicked, now>>

\* Mutant of WaitReturn: wait() returns without the deferred pcancel().
WaitReturn_NoPcancel ==
    /\ ~panicked
    /\ UNCHANGED <<pathVars, folderVars>>
    /\ g1 = "decided"
    /\ g1' = "returned"
    /\ UNCHANGED <<callerVars, waiterVars, chosen, ret, decidedAt, timerVars,
                   chanVars, eventsVars, early, panicked, now>>

\* wait() returns: the deferred cancel() and pcancel() run.
WaitReturn ==
    /\ ~panicked
    /\ UNCHANGED <<pathVars, folderVars>>
    /\ g1 = "decided"
    /\ g1' = "returned"
    /\ pctx' = "cancelled"
    /\ UNCHANGED <<callerVars, waiterVars, chosen, ret, decidedAt, timerVars,
                   success, successCloses, mgrErr, eventsVars, early,
                   panicked, now>>

\* Mutant of SetErr: the value wait() returned is dropped.
SetErr_Dropped ==
    /\ ~panicked
    /\ UNCHANGED <<pathVars, folderVars>>
    /\ g1 = "returned"
    /\ g1' = "errset"
    /\ UNCHANGED <<callerVars, waiterVars, chosen, ret, decidedAt, timerVars,
                   chanVars, eventsVars, early, panicked, now>>

\* w.err = <the value wait() returned>
SetErr ==
    /\ ~panicked
    /\ UNCHANGED <<pathVars, folderVars>>
    /\ g1 = "returned"
    /\ g1' = "errset"
    /\ err' = ret
    /\ errWrites' = errWrites + 1
    /\ UNCHANGED <<callerVars, done, doneCloses, chosen, ret, decidedAt,
                   timerVars, chanVars, eventsVars, early, panicked, now>>

\* close(w.done)
CloseDone ==
    /\ ~panicked
    /\ UNCHANGED <<pathVars, folderVars>>
    /\ g1 = "errset"
    /\ g1' = "exited"
    /\ done' = "closed"
    /\ doneCloses' = doneCloses + 1
    /\ UNCHANGED <<callerVars, err, errWrites, chosen, ret, decidedAt,
                   timerVars, chanVars, eventsVars, early, panicked, now>>

(***************************************************************************)
(* The subscriber goroutine: mgrErr <- mgr.Events(pctx, ..., cb).          *)
(***************************************************************************)
\* mgr.Events is called: the subscription becomes active.
EventsCall ==
    /\ ~panicked
    /\ UNCHANGED <<pathVars, folderVars>>
    /\ g2 = "spawned"
    /\ g2' = "active"
    /\ eventsCalls' = eventsCalls + 1
    /\ UNCHANGED <<callerVars, waiterVars, waitVars, timerVars,
                   chanVars, eventsRet,
                   page, nEvents, seen, early, panicked, now>>

\* The event source hands a page of events to cb.
DeliverPage ==
    /\ ~panicked
    /\ UNCHANGED <<pathVars, folderVars>>
    /\ g2 = "active"
    /\ page = <<>>
    /\ nEvents < MaxEvents
    /\ \E p \in Pages(MaxEvents - nEvents) :
         /\ page' = p
         /\ nEvents' = nEvents + Len(p)
    /\ UNCHANGED <<callerVars, waiterVars, waitVars, timerVars,
                   chanVars, g2,
                   eventsCalls, eventsRet, seen, early, panicked, now>>

\* One iteration of the loop of cb over the page.
CbStep ==
    /\ ~panicked
    /\ UNCHANGED <<pathVars, folderVars>>
    /\ g2 = "active"
    /\ page # <<>>
    /\ LET e == Head(page) IN
       /\ seen' = Append(seen, e)
       /\ CASE CbAction(e) = "return error" ->
                 \* cb returns the error and Events returns it in turn
                 /\ page' = <<>>
                 /\ g2' = "returning"
                 /\ eventsRet' = <<ErrorsNew(e.msg)>>
                 /\ early' = NoteReturn(
                                [early EXCEPT !.failed = ~DeadlinePassed],
                                ErrorsNew(e.msg))
                 /\ UNCHANGED <<waitVars, success, successCloses, panicked>>
            [] CbAction(e) = "close success" ->
                 /\ page' = Tail(page)
                 /\ successCloses' = successCloses + 1
                 /\ early' = [early EXCEPT !.succeeded = @ \/ ~DeadlinePassed]
                 /\ IF success = "closed"
                    THEN \* panic: close of closed channel
                         /\ panicked' = TRUE
                         /\ UNCHANGED <<waitVars, success>>
                    ELSE /\ success' = "closed"
                         /\ UNCHANGED panicked
                         /\ IF g1 = "blocked"
                            THEN Decide("success", Nil, now)
                            ELSE UNCHANGED waitVars
                 /\ UNCHANGED <<g2, eventsRet>>
            [] OTHER ->
                 /\ page' = Tail(page)
                 /\ UNCHANGED <<waitVars, success, successCloses, g2,
                                eventsRet, early, panicked>>
    /\ UNCHANGED <<callerVars, waiterVars, timerVars, mgrErr, pctx,
                   eventsCalls, nEvents, now>>

\* The subscription fails: Events returns a transport error.
EventsFail ==
    /\ ~panicked
    /\ UNCHANGED <<pathVars, folderVars>>
    /\ g2 = "active"
    /\ page = <<>>
    /\ g2' = "returning"
    /\ Returned(TransportErr)
    /\ UNCHANGED <<callerVars, waiterVars, waitVars, timerVars,
                   chanVars, eventsCalls,
                   page, nEvents, seen, panicked, now>>

\* Events returns without an error although cb returned none.
EventsReturnNil ==
    /\ ~panicked
    /\ UNCHANGED <<pathVars, folderVars>>
    /\ g2 = "active"
    /\ page = <<>>
    /\ g2' = "returning"
    /\ Returned(Nil)
    /\ UNCHANGED <<callerVars, waiterVars, waitVars, timerVars,
                   chanVars, eventsCalls,
                   page, nEvents, seen, panicked, now>>

\* Events notices that its context was cancelled and returns.
EventsCancelled ==
    /\ ~panicked
    /\ UNCHANGED <<pathVars, folderVars>>
    /\ g2 = "active"
    /\ page = <<>>
    /\ pctx = "cancelled"
    /\ g2' = "returning"
    /\ Returned(CanceledErr)
    /\ UNCHANGED <<callerVars, waiterVars, waitVars, timerVars,
                   chanVars, eventsCalls,
                   page, nEvents, seen, panicked, now>>

\* mgrErr <- <the value Events returned>.  The channel has capacity 1 and
\* this is its only send, so it never blocks; a select blocked on the
\* channel receives the value directly.
EventsSend ==
    /\ ~panicked
    /\ UNCHANGED <<pathVars, folderVars>>
    /\ g2 = "returning"
    /\ g2' = "exited"
    /\ IF g1 = "blocked"
       THEN /\ Decide("mgrErr", Head(eventsRet), now)
            /\ UNCHANGED mgrErr
       ELSE /\ mgrErr' = Append(mgrErr, Head(eventsRet))
            /\ UNCHANGED waitVars
    /\ UNCHANGED <<callerVars, waiterVars, timerVars, success, successCloses,
                   pctx, eventsCalls, eventsRet, page, nEvents, seen, early,
                   panicked, now>>

(***************************************************************************)
(* The clock.                                                              *)
(***************************************************************************)
\* One unit of time passes.  The waiting context expires when the clock
\* reaches its deadline, and a select blocked on it then takes the timeout
\* case.
Tick ==
    /\ ~panicked
    /\ UNCHANGED <<pathVars, folderVars>>
    /\ now < MaxTime
    /\ deadline = -1 => now + defaultAPITimeout < MaxTime
    /\ now' = now + 1
    /\ IF g1 = "blocked" /\ now + 1 >= deadline
       THEN Decide("timeout", Nil, now + 1)
       ELSE UNCHANGED waitVars
    /\ UNCHANGED <<callerVars, waiterVars, timerVars, chanVars, eventsVars,
                   early, panicked>>

Next ==
    \/ NewWaiter
    \/ Customize
    \/ BeginWait
    \/ ReadErr
    \/ WaitSetup
    \/ WaitSelect
    \/ WaitReturn
    \/ SetErr
    \/ CloseDone
    \/ EventsCall
    \/ DeliverPage
    \/ CbStep
    \/ EventsFail
    \/ EventsReturnNil
    \/ EventsCancelled
    \/ EventsSend
    \/ Tick

Spec == Init /\ [][Next]_vars

\* The Go scheduler runs every runnable goroutine eventually, and time passes.
Fairness ==
    /\ WF_vars(WaitSetup)
    /\ WF_vars(WaitSelect)
    /\ WF_vars(WaitReturn)
    /\ WF_vars(SetErr)
    /\ WF_vars(CloseDone)
    /\ WF_vars(EventsCall)
    /\ WF_vars(CbStep)
    /\ WF_vars(EventsSend)
    /\ WF_vars(Tick)

FairSpec == Spec /\ Fairness

TypeOK ==
    /\ callerPc \in {"start", "constructed", "customized", "waiting", "finished"}
    /\ done \in {"none", "open", "closed"}
    /\ g1 \in {"none", "spawned", "running", "blocked", "decided", "returned",
               "errset", "exited"}
    /\ g2 \in {"none", "spawned", "active", "returning", "exited"}
    /\ chosen \in {"none", "mgrErr", "timeout", "success"}
    /\ success \in {"none", "open", "closed"}
    /\ pctx \in {"none", "live", "cancelled"}
    /\ Len(mgrErr) <= 1
    /\ now \in 0..MaxTime
    /\ nEvents \in 0..MaxEvents

(***************************************************************************)
(* Vocabulary of the properties.                                           *)
(***************************************************************************)
\* cb has looked at a CustomizationSucceeded event.
SawSucceeded == \E i \in 1..Len(seen) : seen[i].type = eventTypeCustomizationSucceeded

\* cb has looked at a CustomizationFailed event.
SawFailed == \E i \in 1..Len(seen) : seen[i].type = eventTypeCustomizationFailed

\* The messages of the CustomizationFailed events cb has looked at (cb
\* returns at the first one, so there is at most one).
FailedMsgs == {seen[i].msg : i \in {j \in 1..Len(seen) :
                                      seen[j].type = eventTypeCustomizationFailed}}

\* The subscription itself failed.
TransportFailed == eventsRet = <<TransportErr>>

DoneClosed == done = "closed"

\* The caller has issued the customization operation.
Customized == callerPc \in {"customized", "waiting", "finished"}

(***************************************************************************)
(* C1.  The constructor does not return before mgr.Events has been called, *)
(* so a customization operation issued after the constructor returned      *)
(* begins after the subscription is active.                                *)
(* The constructor only starts the waiter goroutine: the caller can issue  *)
(* the operation before wait() has even started the subscriber.            *)
(***************************************************************************)
C1_SubscribedBeforeReturn ==
    /\ callerPc # "start" => eventsCalls > 0
    /\ Customized => subAtCustomize

(***************************************************************************)
(* C5.  Each completion signal fires at most once: w.done is closed once   *)
(* and the success channel is closed at most once, whatever pages are      *)
(* delivered.                                                              *)
(* cb closes success for every CustomizationSucceeded event it looks at:   *)
(* the second close panics.                                                *)
(***************************************************************************)
C5_SignalsFireOnce ==
    /\ successCloses <= 1
    /\ doneCloses <= 1
    /\ ~panicked

(***************************************************************************)
(* C6.  Err() is nil in every state in which w.done is not yet closed.     *)
(* The waiter goroutine assigns w.err and only then closes w.done.         *)
(***************************************************************************)
C6_ErrNilUntilDone == ~DoneClosed => err = Nil

(***************************************************************************)
(* C2.  If cb is handed a CustomizationSucceeded event before the deadline *)
(* and neither a CustomizationFailed event nor a subscription error        *)
(* occurs, w.done is eventually closed and Err() is then nil.              *)
(* A second CustomizationSucceeded event makes cb close the success        *)
(* channel again (C5): the process panics and w.done is never closed.      *)
(***************************************************************************)
C2_Clean == ~SawFailed /\ ~TransportFailed

C2_SuccessLeadsToNil ==
    (early.succeeded /\ C2_Clean) ~> ((DoneClosed /\ err = Nil) \/ ~C2_Clean)

\* The same, for runs in which cb's second close has not killed the process.
C2_SuccessLeadsToNilUnlessPanic ==
    (early.succeeded /\ C2_Clean)
        ~> ((DoneClosed /\ err = Nil) \/ ~C2_Clean \/ panicked)

(***************************************************************************)
(* C3.  If cb is handed a CustomizationFailed event and no                 *)
(* CustomizationSucceeded event, then once w.done is closed Err() is the   *)
(* error whose text is that event's message.                               *)
(* As stated this fails: the deadline can expire before the error reaches  *)
(* the select, and Err() is then the timeout error.                        *)
(***************************************************************************)
C3_FailureIsReported ==
    (DoneClosed /\ SawFailed /\ ~SawSucceeded)
        => \A m \in FailedMsgs : err = Error(m)

(***************************************************************************)
(* C3, amended.  In such a run, once w.done is closed Err() is never nil:  *)
(* it is the error whose text is the event's message, or, when the select  *)
(* returned at the deadline, the timeout error.                            *)
(***************************************************************************)
C3_FailureOrTimeoutIsReported ==
    (DoneClosed /\ SawFailed /\ ~SawSucceeded)
        => /\ ~err.isNil
           /\ \A m \in FailedMsgs :
                \/ err = Error(m)
                \/ err = TimeoutErr /\ decidedAt = deadline

C3_Witness ==
    /\ DoneClosed /\ SawFailed /\ ~SawSucceeded
    /\ \E m \in FailedMsgs : err = Error(m) /\ err # TimeoutErr

(***************************************************************************)
(* C4.  If, before the deadline, cb is handed neither a                    *)
(* CustomizationSucceeded nor a CustomizationFailed event and Events       *)
(* returns no error, then Err() is the timeout error and the subscriber's  *)
(* context is cancelled by the time w.done is closed.                      *)
(* When Events returns nil before the deadline, wait() returns that nil.   *)
(***************************************************************************)
C4_TimeoutIsReported ==
    (DoneClosed /\ ~early.succeeded /\ ~early.failed
                /\ early.ret \in {<<>>, <<Nil>>})
        => (err = TimeoutErr /\ pctx = "cancelled")

\* The same, for runs in which Events does not return before the deadline.
C4_TimeoutIsReportedUnlessReturned ==
    (DoneClosed /\ ~early.succeeded /\ ~early.failed /\ early.ret = <<>>)
        => (err = TimeoutErr /\ pctx = "cancelled")

(***************************************************************************)
(* C7.  w.err is assigned exactly once, by the waiter goroutine, before    *)
(* w.done is closed, and never changes after the close; the caller, which  *)
(* reads Err() after the receive from w.done, reads the final value.       *)
(***************************************************************************)
C7_WriteOnceBeforeClose ==
    [][ /\ errWrites' <= 1
        /\ errWrites' # errWrites => (g1 = "returned" /\ ~DoneClosed)
        /\ DoneClosed' => errWrites' = 1
        /\ DoneClosed => err' = err
        /\ observed' # <<>> => observed' = <<err'>> ]_vars

C7_Witness == callerPc = "finished" /\ observed = <<err>> /\ ~err.isNil

(***************************************************************************)
(* C8.  A waiter calls mgr.Events at most once, from the one subscriber    *)
(* goroutine it starts, and whenever w.done is closed the subscriber's     *)
(* context has been cancelled, whichever case the select took.             *)
(***************************************************************************)
C8_CancelledBeforeDone ==
    /\ eventsCalls <= 1
    /\ DoneClosed => (g2 # "none" /\ pctx = "cancelled")

C8_Witness == DoneClosed /\ chosen = "mgrErr" /\ eventsCalls = 1

(***************************************************************************)
(* C9.  The timeout is measured from the moment the caller begins to block *)
(* on Done(): the select takes the timeout case no earlier than            *)
(* defaultAPITimeout after that moment.                                    *)
(* As stated this fails: the waiting context is created by the waiter      *)
(* goroutine, whenever the caller begins to block.                         *)
(***************************************************************************)
C9_TimeoutFromCallerWait ==
    chosen = "timeout"
        => (waitStart # -1 /\ decidedAt >= waitStart + defaultAPITimeout)

(***************************************************************************)
(* C9, amended.  The timeout is measured from the moment wait(), running   *)
(* in the goroutine the constructor started, creates its waiting context:  *)
(* the select takes the timeout case no earlier than defaultAPITimeout     *)
(* after that moment, also when the caller has not begun to block yet.     *)
(***************************************************************************)
C9_TimeoutFromContextCreation ==
    chosen = "timeout"
        => (armedAt # -1 /\ decidedAt >= armedAt + defaultAPITimeout)

C9_Witness ==
    /\ chosen = "timeout"
    /\ callerPc \in {"constructed", "customized"}

(***************************************************************************)
(* C10.  If mgr.Events returns an error E that does not come from a        *)
(* CustomizationFailed event, the waiter ends with Err() = E, and it never *)
(* calls Events again.                                                     *)
(* As stated this fails, even for an E that Events returns before the      *)
(* select of wait() has returned: E is dropped when the select takes the   *)
(* success or the timeout case.                                            *)
(***************************************************************************)
C10_SubscriptionErrorIsReported ==
    (DoneClosed /\ eventsRet # <<>> /\ ~SawFailed /\ ~Head(eventsRet).isNil
                /\ early.retBeforeSelect)
        => (err = Head(eventsRet) /\ eventsCalls = 1)

(***************************************************************************)
(* C10, amended.  If the select of wait() receives from mgrErr the value   *)
(* E that mgr.Events returned, the waiter ends with Err() = E unchanged;   *)
(* w.done is closed once and Events is never called again.                 *)
(***************************************************************************)
C10_ReceivedErrorIsReported ==
    /\ eventsCalls <= 1
    /\ doneCloses <= 1
    /\ (DoneClosed /\ chosen = "mgrErr")
         => (eventsRet # <<>> /\ err = Head(eventsRet) /\ eventsCalls = 1)

C10_Witness ==
    /\ DoneClosed /\ chosen = "mgrErr"
    /\ eventsRet = <<TransportErr>> /\ err = TransportErr

(***************************************************************************)
(* C11.  w.done is eventually closed in every execution of a waiter, also  *)
(* when no page is ever delivered and mgr.Events never returns.            *)
(* A second CustomizationSucceeded event makes cb close the success        *)
(* channel again (C5): the process panics and w.done is never closed.      *)
(***************************************************************************)
C11_DoneEventuallyClosed == (g1 # "none") ~> DoneClosed

\* The same, for runs in which cb's second close has not killed the process.
C11_DoneEventuallyClosedUnlessPanic == (g1 # "none") ~> (DoneClosed \/ panicked)

(***************************************************************************)
(* C20.  The first terminal event cb is handed decides the result: when a  *)
(* CustomizationSucceeded event comes before a CustomizationFailed event   *)
(* the result is nil, and when the CustomizationFailed event comes first   *)
(* the result is that failure.  Stated for the runs in which the select    *)
(* did not time out.                                                       *)
(* cb goes on after close(success): a later CustomizationFailed event puts *)
(* its error on mgrErr, and a select that finds both channels ready may    *)
(* take mgrErr.                                                            *)
(***************************************************************************)
C20_FirstTerminalEventWins ==
    (DoneClosed /\ chosen # "timeout")
        => /\ (SawSucceeded /\ SawFailed) => err = Nil
           /\ (SawFailed /\ ~SawSucceeded)
                => \A m \in FailedMsgs : err = Error(m)

\* The half of C20 that holds: a failure that comes first is never
\* replaced by a success.
C20_FailureFirstIsKept ==
    (DoneClosed /\ chosen # "timeout" /\ SawFailed /\ ~SawSucceeded)
        => \A m \in FailedMsgs : err = Error(m)


(***************************************************************************)
(* C21.  An event of any type other than CustomizationSucceeded or         *)
(* CustomizationFailed delivered to the listener leaves the waiter         *)
(* pending: the done channel stays open, the result slot and the success   *)
(* signal are unchanged, and the subscription stays active.                *)
(***************************************************************************)
\* cb looks at an event that is neither a success nor a failure.
CbLooksAtOtherEvent ==
    /\ g2 = "active"
    /\ page # <<>>
    /\ Head(page).type \notin {eventTypeCustomizationSucceeded,
                               eventTypeCustomizationFailed}
    /\ seen' = Append(seen, Head(page))

C21_OtherEventsAreIgnored ==
    [][CbLooksAtOtherEvent =>
          /\ done' = done
          /\ err' = err
          /\ ret' = ret
          /\ g1' = g1
          /\ success' = success
          /\ successCloses' = successCloses
          /\ mgrErr' = mgrErr
          /\ g2' = "active"]_vars

\* cb has looked at such an event while wait() was blocked in its select,
\* and the waiter is still pending.
C21_Witness ==
    /\ seen # <<>>
    /\ seen[Len(seen)].type = eventTypeOther
    /\ g1 = "blocked"
    /\ done = "open"
    /\ success = "open"
    /\ g2 = "active"

(***************************************************************************)
(* C24.  Err() is nil after Done() is closed only if a                     *)
(* CustomizationSucceeded event was delivered to the listener of that      *)
(* waiter: in particular, the subscription call returning without an       *)
(* error before any success event has been seen never produces a nil       *)
(* (success) result.                                                       *)
(* wait() returns whatever it receives from mgrErr, a nil included.        *)
(***************************************************************************)
C24_NilOnlyAfterSuccess == (DoneClosed /\ err = Nil) => SawSucceeded

\* What holds of the code: a nil result without a success event is the nil
\* that mgr.Events returned, received from mgrErr.
C24_NilAfterSuccessOrNilReturn ==
    (DoneClosed /\ err = Nil)
        => SawSucceeded \/ (chosen = "mgrErr" /\ eventsRet = <<Nil>>)

(***************************************************************************)
(* The inventory path helpers of vsphere/folder_helper.go.                 *)
(*                                                                         *)
(* A Go string is a sequence of one-character strings, so that searching,  *)
(* splitting, cleaning and trimming work on the characters as the Go       *)
(* library functions do.                                                   *)
(***************************************************************************)

\* Bounds of the path model: an inventory path is made of at most
\* MaxPathTokens tokens, a relative path of at most MaxRelTokens tokens.
MaxPathTokens == 3

MaxRelTokens == 3

vSphereFolderTypeVM == "vm"

vSphereFolderTypeNetwork == "network"

vSphereFolderTypeHost == "host"

vSphereFolderTypeDatastore == "datastore"

rootPathParticleVM == vSphereFolderTypeVM

rootPathParticleNetwork == vSphereFolderTypeNetwork

rootPathParticleHost == vSphereFolderTypeHost

rootPathParticleDatastore == vSphereFolderTypeDatastore

Particles == {rootPathParticleVM, rootPathParticleNetwork,
              rootPathParticleHost, rootPathParticleDatastore}

\* rootPathParticle.String: the characters of the particle's name.
String(p) ==
    CASE p = rootPathParticleVM -> <<"v", "m">>
      [] p = rootPathParticleNetwork -> <<"n", "e", "t", "w", "o", "r", "k">>
      [] p = rootPathParticleHost -> <<"h", "o", "s", "t">>
      [] p = rootPathParticleDatastore ->
             <<"d", "a", "t", "a", "s", "t", "o", "r", "e">>

\* strings.HasPrefix on the part of s that starts at position i.
HasPrefixAt(s, sep, i) ==
    /\ i + Len(sep) - 1 <= Len(s)
    /\ SubSeq(s, i, i + Len(sep) - 1) = sep

\* strings.Index: the position of the first occurrence of sep in s, 0 if none.
Index(s, sep) ==
    IF \E i \in 1..Len(s) : HasPrefixAt(s, sep, i)
    THEN CHOOSE i \in 1..Len(s) :
             /\ HasPrefixAt(s, sep, i)
             /\ \A j \in 1..(i - 1) : ~HasPrefixAt(s, sep, j)
    ELSE 0

\* strings.LastIndex: the position of the last occurrence of sep in s, 0 if none.
LastIndex(s, sep) ==
    IF \E i \in 1..Len(s) : HasPrefixAt(s, sep, i)
    THEN CHOOSE i \in 1..Len(s) :
             /\ HasPrefixAt(s, sep, i)
             /\ \A j \in (i + 1)..Len(s) : ~HasPrefixAt(s, sep, j)
    ELSE 0

\* The number of occurrences of sep in s, overlapping ones included.
Occurrences(s, sep) == Cardinality({i \in 1..Len(s) : HasPrefixAt(s, sep, i)})

\* Mutant of SplitN: split at the last occurrence of sep.
SplitN_Last(s, sep, n) ==
    IF n = 1 \/ LastIndex(s, sep) = 0
    THEN <<s>>
    ELSE <<SubSeq(s, 1, LastIndex(s, sep) - 1),
           SubSeq(s, LastIndex(s, sep) + Len(sep), Len(s))>>

\* strings.SplitN(s, sep, n) for a non-empty sep and n > 0: at most n pieces,
\* cut at the first occurrences of sep, the last piece the unsplit rest.
RECURSIVE SplitN(_, _, _)
SplitN(s, sep, n) ==
    IF n = 1 \/ Index(s, sep) = 0
    THEN <<s>>
    ELSE <<SubSeq(s, 1, Index(s, sep) - 1)>>
             \o SplitN(SubSeq(s, Index(s, sep) + Len(sep), Len(s)), sep, n - 1)

\* strings.TrimPrefix.
TrimPrefix(s, prefix) ==
    IF HasPrefixAt(s, prefix, 1) THEN SubSeq(s, Len(prefix) + 1, Len(s)) ELSE s

\* fmt.Sprintf("%s/%s", a, b).
Sprintf(a, b) == a \o <<"/">> \o b


\* The backtracking of path.Clean on a ".." element: drop the last element
\* of out and the slash before it, never going below the mark dotdot.
Backtrack(out, dotdot) ==
    SubSeq(out, 1,
           CHOOSE w \in dotdot..(Len(out) - 1) :
               /\ w = dotdot \/ out[w + 1] = "/"
               /\ \A k \in (w + 1)..(Len(out) - 1) : out[k + 1] # "/")

\* The separator path.Clean writes before a real element.
Sep(rooted, out) ==
    IF (rooted /\ Len(out) # 1) \/ (~rooted /\ Len(out) # 0)
    THEN <<"/">> ELSE <<>>

\* The end of the element of p that starts at position r.
ElementEnd(p, r) ==
    IF \E k \in r..Len(p) : p[k] = "/"
    THEN (CHOOSE k \in r..Len(p) :
              p[k] = "/" /\ \A j \in r..(k - 1) : p[j] # "/") - 1
    ELSE Len(p)

\* The loop of path.Clean: r is the next position to read, out the buffer
\* written so far, dotdot the length below which ".." cannot backtrack.
RECURSIVE CleanLoop(_, _, _, _, _)
CleanLoop(p, rooted, r, out, dotdot) ==
    IF r > Len(p) THEN out
    ELSE IF p[r] = "/" THEN CleanLoop(p, rooted, r + 1, out, dotdot)
    ELSE IF p[r] = "." /\ (r = Len(p) \/ p[r + 1] = "/")
         THEN CleanLoop(p, rooted, r + 1, out, dotdot)
    ELSE IF /\ p[r] = "."
            /\ r + 1 <= Len(p)
            /\ p[r + 1] = "."
            /\ (r + 1 = Len(p) \/ p[r + 2] = "/")
         THEN IF Len(out) > dotdot
              THEN CleanLoop(p, rooted, r + 2, Backtrack(out, dotdot), dotdot)
              ELSE IF ~rooted
                   THEN CleanLoop(p, rooted, r + 2,
                            out \o (IF Len(out) > 0 THEN <<"/">> ELSE <<>>)
                                \o <<".", ".">>,
                            Len(out) + (IF Len(out) > 0 THEN 1 ELSE 0) + 2)
                   ELSE CleanLoop(p, rooted, r + 2, out, dotdot)
    ELSE CleanLoop(p, rooted, ElementEnd(p, r) + 1,
                   out \o Sep(rooted, out) \o SubSeq(p, r, ElementEnd(p, r)),
                   dotdot)

\* Mutant of Clean: repeated slashes and "." elements are kept.
Clean_Verbatim(p) == IF p = <<>> THEN <<".">> ELSE p

\* path.Clean: the shortest path name equivalent to p by lexical processing.
Clean(p) ==
    IF p = <<>> THEN <<".">>
    ELSE LET rooted == p[1] = "/"
             out == IF rooted
                    THEN CleanLoop(p, TRUE, 2, <<"/">>, 1)
                    ELSE CleanLoop(p, FALSE, 1, <<>>, 0)
         IN IF out = <<>> THEN <<".">> ELSE out

\* path.Dir: all but the last element of p, cleaned.
Dir(p) == Clean(SubSeq(p, 1, LastIndex(p, <<"/">>)))


\* The error of a failed split (its text names the path and the delimiter).
CouldNotSplit == Error("could not split path")

\* What a helper returns: a string and an error.
Result(v, e) == [val |-> v, err |-> e]

\* An *object.Datacenter, as far as the helpers read it.
Datacenter(inventoryPath) == [InventoryPath |-> inventoryPath]

\* rootPathParticle.Delimiter
Delimiter(p) == <<"/">> \o String(p)

\* rootPathParticle.RootFromDatacenter
RootFromDatacenter(p, dc) == dc.InventoryPath \o <<"/">> \o String(p)

\* Mutant of PathFromDatacenter: the relative path is appended as it is.
PathFromDatacenter_NoSlash(p, dc, relative) ==
    RootFromDatacenter(p, dc) \o relative

\* rootPathParticle.PathFromDatacenter
PathFromDatacenter(p, dc, relative) ==
    RootFromDatacenter(p, dc) \o <<"/">> \o relative

\* rootPathParticle.SplitDatacenter
SplitDatacenter(p, inventoryPath) ==
    LET s == SplitN(inventoryPath, Delimiter(p), 2)
    IN IF Len(s) # 2
       THEN Result(inventoryPath, CouldNotSplit)
       ELSE Result(s[1], Nil)

\* rootPathParticle.SplitRelative
SplitRelative(p, inventoryPath) ==
    LET s == SplitN(inventoryPath, Delimiter(p), 2)
    IN IF Len(s) # 2
       THEN Result(inventoryPath, CouldNotSplit)
       ELSE Result(s[2], Nil)

\* Mutant of SplitRelativeFolder: the error of SplitRelative is dropped.
SplitRelativeFolder_NoCheck(p, inventoryPath) ==
    Result(Dir(SplitRelative(p, inventoryPath).val), Nil)

\* rootPathParticle.SplitRelativeFolder
SplitRelativeFolder(p, inventoryPath) ==
    LET r == SplitRelative(p, inventoryPath)
    IN IF r.err # Nil
       THEN Result(inventoryPath, r.err)
       ELSE Result(Dir(r.val), Nil)

\* rootPathParticle.NewRootFromPath
NewRootFromPath(p, inventoryPath, newParticle) ==
    LET r == SplitDatacenter(p, inventoryPath)
    IN IF r.err # Nil
       THEN Result(inventoryPath, r.err)
       ELSE Result(Sprintf(r.val, String(newParticle)), Nil)

\* rootPathParticle.PathFromNewRoot
PathFromNewRoot(p, inventoryPath, newParticle, relative) ==
    LET r == NewRootFromPath(p, inventoryPath, newParticle)
    IN IF r.err # Nil
       THEN Result(inventoryPath, r.err)
       ELSE Result(Clean(Sprintf(r.val, relative)), Nil)

\* pathIsEmpty
pathIsEmpty(path) == path = <<>> \/ path = <<"/">>

\* Mutant of normalizeFolderPath: the leading slash is trimmed before
\* the path is cleaned.
normalizeFolderPath_TrimFirst(v) ==
    IF pathIsEmpty(v) THEN <<>> ELSE Clean(TrimPrefix(v, <<"/">>))

\* normalizeFolderPath
normalizeFolderPath(v) ==
    IF pathIsEmpty(v) THEN <<>> ELSE TrimPrefix(Clean(v), <<"/">>)


(***************************************************************************)
(* The arguments the helpers are called with.                              *)
(***************************************************************************)
\* Pieces of inventory paths: the four delimiters, a datacenter or folder
\* segment, and a letter that lengthens the segment before it ("/vms").
PathTokens ==
    {Delimiter(p) : p \in Particles} \cup {<<"/", "d", "c", "1">>, <<"s">>}

\* Pieces of relative paths.
RelTokens == {<<"/">>, <<".">>, <<"a">>}

\* The concatenations of at most n tokens.
RECURSIVE Concats(_, _)
Concats(tokens, n) ==
    IF n = 0 THEN {<<>>}
    ELSE LET shorter == Concats(tokens, n - 1)
         IN shorter \cup {a \o t : a \in shorter, t \in tokens}

\* "/dc1/host/cluster1/esxi1"
ExamplePaths ==
    {<<"/", "d", "c", "1", "/", "h", "o", "s", "t", "/", "c", "l", "u", "s",
       "t", "e", "r", "1", "/", "e", "s", "x", "i", "1">>}

\* "foo/bar", "/foo/bar", "//a/./b/"
ExampleRelatives ==
    {<<"f", "o", "o", "/", "b", "a", "r">>,
     <<"/", "f", "o", "o", "/", "b", "a", "r">>,
     <<"/", "/", "a", "/", ".", "/", "b", "/">>}

InventoryPaths(n) == Concats(PathTokens, n) \cup ExamplePaths

RelativePaths(n) == Concats(RelTokens, n) \cup ExampleRelatives

\* The variables of the customization waiter, which the helpers leave alone.
customizationVars == <<callerVars, waiterVars, waitVars, timerVars, chanVars,
                       eventsVars, early, panicked, now>>

PathIdle == pathCall = NoCall

(***************************************************************************)
(* The calls.                                                              *)
(***************************************************************************)
\* p.SplitDatacenter(inventoryPath)
CallSplitDatacenter ==
    /\ PathIdle
    /\ \E p \in Particles, inventoryPath \in InventoryPaths(MaxPathTokens) :
        /\ pathCall' = [fn |-> "SplitDatacenter", particle |-> p,
                        inventoryPath |-> inventoryPath, origin |-> NoCall]
        /\ pathOut' = SplitDatacenter(p, inventoryPath)
    /\ UNCHANGED <<customizationVars, folderVars>>

\* p.SplitRelative(inventoryPath)
CallSplitRelative ==
    /\ PathIdle
    /\ \E p \in Particles, inventoryPath \in InventoryPaths(MaxPathTokens) :
        /\ pathCall' = [fn |-> "SplitRelative", particle |-> p,
                        inventoryPath |-> inventoryPath]
        /\ pathOut' = SplitRelative(p, inventoryPath)
    /\ UNCHANGED <<customizationVars, folderVars>>

\* p.SplitRelativeFolder(inventoryPath)
CallSplitRelativeFolder ==
    /\ PathIdle
    /\ \E p \in Particles, inventoryPath \in InventoryPaths(MaxPathTokens) :
        /\ pathCall' = [fn |-> "SplitRelativeFolder", particle |-> p,
                        inventoryPath |-> inventoryPath]
        /\ pathOut' = SplitRelativeFolder(p, inventoryPath)
    /\ UNCHANGED <<customizationVars, folderVars>>

\* p.PathFromDatacenter(dc, relative), called with the two halves into which
\* p splits an inventory path.
CallPathFromDatacenter ==
    /\ PathIdle
    /\ \E p \in Particles, inventoryPath \in InventoryPaths(MaxPathTokens) :
        LET dcp == SplitDatacenter(p, inventoryPath)
            relative == SplitRelative(p, inventoryPath)
        IN /\ dcp.err = Nil
           /\ relative.err = Nil
           /\ pathCall' = [fn |-> "PathFromDatacenter", particle |-> p,
                           dc |-> Datacenter(dcp.val),
                           relative |-> relative.val,
                           origin |-> inventoryPath]
           /\ pathOut' = Result(PathFromDatacenter(p, Datacenter(dcp.val),
                                                   relative.val), Nil)
    /\ UNCHANGED <<customizationVars, folderVars>>

\* p.NewRootFromPath(inventoryPath, newParticle)
CallNewRootFromPath ==
    /\ PathIdle
    /\ \E p \in Particles, newParticle \in Particles,
          inventoryPath \in InventoryPaths(MaxPathTokens) :
        /\ pathCall' = [fn |-> "NewRootFromPath", particle |-> p,
                        inventoryPath |-> inventoryPath,
                        newParticle |-> newParticle]
        /\ pathOut' = NewRootFromPath(p, inventoryPath, newParticle)
    /\ UNCHANGED <<customizationVars, folderVars>>

\* newParticle.SplitDatacenter on the root NewRootFromPath has just returned.
SplitNewRoot ==
    /\ pathCall.fn = "NewRootFromPath"
    /\ pathOut.err = Nil
    /\ pathCall' = [fn |-> "SplitDatacenter", particle |-> pathCall.newParticle,
                    inventoryPath |-> pathOut.val, origin |-> pathCall]
    /\ pathOut' = SplitDatacenter(pathCall.newParticle, pathOut.val)
    /\ UNCHANGED <<customizationVars, folderVars>>

\* p.PathFromNewRoot(inventoryPath, newParticle, relative)
CallPathFromNewRoot ==
    /\ PathIdle
    /\ \E p \in Particles, newParticle \in Particles,
          inventoryPath \in InventoryPaths(MaxPathTokens - 1),
          relative \in RelativePaths(MaxRelTokens - 1) :
        /\ pathCall' = [fn |-> "PathFromNewRoot", particle |-> p,
                        inventoryPath |-> inventoryPath,
                        newParticle |-> newParticle, relative |-> relative]
        /\ pathOut' = PathFromNewRoot(p, inventoryPath, newParticle, relative)
    /\ UNCHANGED <<customizationVars, folderVars>>

\* normalizeFolderPath(v)
CallNormalizeFolderPath ==
    /\ PathIdle
    /\ \E v \in RelativePaths(MaxRelTokens) :
        /\ pathCall' = [fn |-> "normalizeFolderPath", v |-> v,
                        origin |-> NoCall]
        /\ pathOut' = Result(normalizeFolderPath(v), Nil)
    /\ UNCHANGED <<customizationVars, folderVars>>

\* normalizeFolderPath on the path normalizeFolderPath has just returned (the
\* StateFunc of the "path" attribute is applied to the value Read has set).
Renormalize ==
    /\ pathCall.fn = "normalizeFolderPath"
    /\ pathCall.origin = NoCall
    /\ pathCall' = [fn |-> "normalizeFolderPath", v |-> pathOut.val,
                    origin |-> pathCall]
    /\ pathOut' = Result(normalizeFolderPath(pathOut.val), Nil)
    /\ UNCHANGED <<customizationVars, folderVars>>

\* The caller takes the result.
PathReturn ==
    /\ ~PathIdle
    /\ pathCall' = NoCall
    /\ pathOut' = NoResult
    /\ UNCHANGED <<customizationVars, folderVars>>

PathNext ==
    \/ CallSplitDatacenter
    \/ CallSplitRelative
    \/ CallSplitRelativeFolder
    \/ CallPathFromDatacenter
    \/ CallNewRootFromPath
    \/ SplitNewRoot
    \/ CallPathFromNewRoot
    \/ CallNormalizeFolderPath
    \/ Renormalize
    \/ PathReturn

PathSpec == Init /\ [][PathNext]_vars

PathTypeOK ==
    /\ pathCall.fn \in {"none", "SplitDatacenter", "SplitRelative",
                        "SplitRelativeFolder", "PathFromDatacenter",
                        "NewRootFromPath", "PathFromNewRoot",
                        "normalizeFolderPath"}
    /\ PathIdle <=> pathOut = NoResult


(***************************************************************************)
(* Vocabulary of the path properties.                                      *)
(***************************************************************************)
\* The lengths of the prefixes D at which path reads D + "/" + P + "/" + R,
\* with D free of the delimiter of p and R not empty.
ValidSplits(p, path) ==
    {i \in 0..Len(path) :
        /\ HasPrefixAt(path, Delimiter(p) \o <<"/">>, i + 1)
        /\ Occurrences(SubSeq(path, 1, i), Delimiter(p)) = 0
        /\ i + Len(Delimiter(p)) + 1 < Len(path)}

\* D and R of such a reading.
DatacenterPart(path, i) == SubSeq(path, 1, i)

RelativePart(p, path, i) == SubSeq(path, i + Len(Delimiter(p)) + 2, Len(path))

Called(fn) == pathCall.fn = fn

(***************************************************************************)
(* C12.  For every particle P and every path D + "/" + P + "/" + R, with   *)
(* D free of "/" + P and R not empty, SplitDatacenter returns exactly D    *)
(* and SplitRelative returns exactly R, both without error.                *)
(* SplitRelative returns what follows the delimiter, which begins with the *)
(* slash that separates P from R.                                          *)
(***************************************************************************)
C12_SplitReturnsHalves ==
    /\ Called("SplitDatacenter") =>
         \A i \in ValidSplits(pathCall.particle, pathCall.inventoryPath) :
             pathOut = Result(DatacenterPart(pathCall.inventoryPath, i), Nil)
    /\ Called("SplitRelative") =>
         \A i \in ValidSplits(pathCall.particle, pathCall.inventoryPath) :
             pathOut = Result(RelativePart(pathCall.particle,
                                           pathCall.inventoryPath, i), Nil)

\* C12 as the code has it: SplitDatacenter returns exactly D and
\* SplitRelative returns "/" + R, both without error.
C12_SplitReturnsHalvesWithSlash ==
    /\ Called("SplitDatacenter") =>
         \A i \in ValidSplits(pathCall.particle, pathCall.inventoryPath) :
             pathOut = Result(DatacenterPart(pathCall.inventoryPath, i), Nil)
    /\ Called("SplitRelative") =>
         \A i \in ValidSplits(pathCall.particle, pathCall.inventoryPath) :
             pathOut = Result(<<"/">> \o RelativePart(pathCall.particle,
                                             pathCall.inventoryPath, i), Nil)

\* SplitRelative has split a path whose relative part holds the delimiter
\* again.
C12_Witness ==
    /\ Called("SplitRelative")
    /\ ValidSplits(pathCall.particle, pathCall.inventoryPath) # {}
    /\ Occurrences(pathCall.inventoryPath, Delimiter(pathCall.particle)) = 2
    /\ pathOut.err = Nil
    /\ pathOut.val = Delimiter(pathCall.particle)

(***************************************************************************)
(* C13.  For every valid path D + "/" + P + "/" + R, recombining the two   *)
(* split results reproduces the input: PathFromDatacenter(P, datacenter    *)
(* with path SplitDatacenter(path), SplitRelative(path)) equals path.      *)
(* PathFromDatacenter puts a slash in front of the relative path, which    *)
(* as SplitRelative returns it has one already.                            *)
(***************************************************************************)
C13_RecombinationReproducesPath ==
    (Called("PathFromDatacenter")
        /\ ValidSplits(pathCall.particle, pathCall.origin) # {})
    => pathOut.val = pathCall.origin

\* C13 as the code has it: recombining the two split results gives
\* D + "/" + P + "//" + R, the input with a second slash in front of R.
C13_RecombinationDoublesSlash ==
    Called("PathFromDatacenter") =>
        \A i \in ValidSplits(pathCall.particle, pathCall.origin) :
            pathOut.val = DatacenterPart(pathCall.origin, i)
                            \o Delimiter(pathCall.particle) \o <<"/", "/">>
                            \o RelativePart(pathCall.particle,
                                            pathCall.origin, i)

\* The two halves of a valid path have been recombined.
C13_Witness ==
    /\ Called("PathFromDatacenter")
    /\ ValidSplits(pathCall.particle, pathCall.origin) # {}
    /\ pathCall.dc.InventoryPath # <<>>
    /\ Len(pathOut.val) = Len(pathCall.origin) + 1


(***************************************************************************)
(* C14.  SplitDatacenter and SplitRelative return an error for every path  *)
(* in which the particle delimiter occurs two or more times; they never    *)
(* return a silently truncated prefix or suffix for such a path.           *)
(* SplitN(..., 2) cuts at the first occurrence and leaves the others in    *)
(* the second piece, so len(s) is 2 and no error is returned.              *)
(***************************************************************************)
C14_DuplicateDelimiterIsAnError ==
    ((Called("SplitDatacenter") \/ Called("SplitRelative"))
        /\ Occurrences(pathCall.inventoryPath,
                       Delimiter(pathCall.particle)) >= 2)
    => pathOut.err # Nil

\* What the code does with such a path: no error, SplitDatacenter returns
\* what precedes the first occurrence and SplitRelative what follows it.
C14_SplitsAtFirstOccurrence ==
    ((Called("SplitDatacenter") \/ Called("SplitRelative"))
        /\ Occurrences(pathCall.inventoryPath,
                       Delimiter(pathCall.particle)) >= 2)
    => LET at == Index(pathCall.inventoryPath, Delimiter(pathCall.particle))
           before == SubSeq(pathCall.inventoryPath, 1, at - 1)
           after == SubSeq(pathCall.inventoryPath,
                           at + Len(Delimiter(pathCall.particle)),
                           Len(pathCall.inventoryPath))
       IN pathOut = Result(IF Called("SplitDatacenter") THEN before ELSE after,
                           Nil)

(***************************************************************************)
(* C15.  For every input path that contains no occurrence of the particle  *)
(* delimiter "/" + P, SplitDatacenter, SplitRelative and                   *)
(* SplitRelativeFolder each return a non-nil error, and what they return   *)
(* beside it is the unsplit input path.                                    *)
(***************************************************************************)
C15_NoDelimiterIsAnError ==
    ((Called("SplitDatacenter") \/ Called("SplitRelative")
            \/ Called("SplitRelativeFolder"))
        /\ Occurrences(pathCall.inventoryPath,
                       Delimiter(pathCall.particle)) = 0)
    => /\ pathOut.err # Nil
       /\ pathOut.val = pathCall.inventoryPath

\* SplitRelativeFolder has refused a path that holds the delimiters of
\* other particles but not its own.
C15_Witness ==
    /\ Called("SplitRelativeFolder")
    /\ Occurrences(pathCall.inventoryPath, Delimiter(pathCall.particle)) = 0
    /\ \E q \in Particles :
           Occurrences(pathCall.inventoryPath, Delimiter(q)) > 0
    /\ pathOut = Result(pathCall.inventoryPath, CouldNotSplit)

(***************************************************************************)
(* C16.  normalizeFolderPath is idempotent on every string input,          *)
(* normalize(normalize(x)) = normalize(x), and both "" and "/" normalize   *)
(* to the empty string.                                                    *)
(***************************************************************************)
C16_NormalizeIsIdempotent ==
    Called("normalizeFolderPath") =>
        /\ pathCall.origin # NoCall => pathOut.val = pathCall.v
        /\ pathCall.v \in {<<>>, <<"/">>} => pathOut.val = <<>>

\* A path that normalization had changed has been normalized again.
C16_Witness ==
    /\ Called("normalizeFolderPath")
    /\ pathCall.origin # NoCall
    /\ pathCall.origin.v # pathCall.v
    /\ pathCall.v # <<>>
    /\ pathOut.val = pathCall.v

(***************************************************************************)
(* C17.  For every input string, the result of normalizeFolderPath is in   *)
(* canonical RelativePath form: it has no leading slash, no trailing       *)
(* slash, no empty segment and no "." segment (so "//a/./b/" yields        *)
(* "a/b").                                                                 *)
(* path.Clean returns "." for a path that names the current directory      *)
(* (".", "./", "a/.."), and normalizeFolderPath hands it on.               *)
(***************************************************************************)
\* r has a segment that is ".".
HasDotSegment(r) ==
    \E i \in 1..Len(r) :
        /\ r[i] = "."
        /\ i = 1 \/ r[i - 1] = "/"
        /\ i = Len(r) \/ r[i + 1] = "/"

\* r is the empty string, or a path without leading slash, trailing slash,
\* empty segment or "." segment.
Canonical(r) ==
    \/ r = <<>>
    \/ /\ r[1] # "/"
       /\ r[Len(r)] # "/"
       /\ Occurrences(r, <<"/", "/">>) = 0
       /\ ~HasDotSegment(r)

C17_NormalizedIsCanonical ==
    Called("normalizeFolderPath") =>
        /\ Canonical(pathOut.val)
        /\ pathCall.v = <<"/", "/", "a", "/", ".", "/", "b", "/">>
               => pathOut.val = <<"a", "/", "b">>

\* What holds of the code: the result is canonical or is ".".
C17_NormalizedIsCanonicalOrDot ==
    Called("normalizeFolderPath") =>
        /\ Canonical(pathOut.val) \/ pathOut.val = <<".">>
        /\ pathCall.v = <<"/", "/", "a", "/", ".", "/", "b", "/">>
               => pathOut.val = <<"a", "/", "b">>

(***************************************************************************)
(* C18.  For every particle P, every path on which P.SplitDatacenter       *)
(* succeeds with prefix D, and every new particle N:                       *)
(* N.SplitDatacenter(P.NewRootFromPath(path, N)) succeeds and returns D    *)
(* unchanged.                                                              *)
(* The delimiter is searched as a substring: a datacenter prefix with a    *)
(* segment that begins with the name of N ("/hosts") is cut there.         *)
(***************************************************************************)
\* The prefix D of the new root D + "/" + N.
NewRootPrefix ==
    SubSeq(pathCall.inventoryPath, 1,
           Len(pathCall.inventoryPath) - Len(Delimiter(pathCall.particle)))

C18_NewRootKeepsDatacenter ==
    (Called("SplitDatacenter") /\ pathCall.origin # NoCall)
    => pathOut = Result(NewRootPrefix, Nil)

\* What holds of the code: D is recovered when it is free of the delimiter
\* of N.
C18_NewRootKeepsCleanDatacenter ==
    (Called("SplitDatacenter") /\ pathCall.origin # NoCall
        /\ Occurrences(NewRootPrefix, Delimiter(pathCall.particle)) = 0)
    => pathOut = Result(NewRootPrefix, Nil)

(***************************************************************************)
(* C19.  For a path whose datacenter prefix D is split off by particle P,  *)
(* P.PathFromNewRoot(path, N, rel) returns the lexically cleaned form of   *)
(* D + "/" + N + "/" + rel, the same for rel given with or without a       *)
(* leading slash, and it fails exactly when SplitDatacenter fails; in      *)
(* particular ("/dc1/host/cluster1/esxi1", host, datastore, "foo/bar")     *)
(* yields "/dc1/datastore/foo/bar".                                        *)
(***************************************************************************)
C19_PathFromNewRoot ==
    Called("PathFromNewRoot") =>
        LET p == pathCall.particle
            path == pathCall.inventoryPath
            n == pathCall.newParticle
            rel == pathCall.relative
            D == SubSeq(path, 1, Index(path, Delimiter(p)) - 1)
        IN /\ pathOut.err # Nil <=> Occurrences(path, Delimiter(p)) = 0
           /\ pathOut.err # Nil <=> SplitDatacenter(p, path).err # Nil
           /\ pathOut.err = Nil =>
                /\ pathOut.val = Clean(D \o <<"/">> \o String(n)
                                         \o <<"/">> \o rel)
                /\ pathOut = PathFromNewRoot(p, path, n, <<"/">> \o rel)
                /\ pathOut = PathFromNewRoot(p, path, n,
                                             TrimPrefix(rel, <<"/">>))
           /\ (/\ path \in ExamplePaths
               /\ p = rootPathParticleHost
               /\ n = rootPathParticleDatastore
               /\ rel = <<"f", "o", "o", "/", "b", "a", "r">>)
              => pathOut = Result(<<"/", "d", "c", "1", "/", "d", "a", "t",
                                    "a", "s", "t", "o", "r", "e", "/", "f",
                                    "o", "o", "/", "b", "a", "r">>, Nil)

\* PathFromNewRoot has moved a path to the root of another particle, with
\* a relative path that cleaning changes.
C19_Witness ==
    /\ Called("PathFromNewRoot")
    /\ pathCall.particle # pathCall.newParticle
    /\ pathOut.err = Nil
    /\ pathCall.relative = <<"/", "a">>
    /\ Len(pathOut.val) > Len(Delimiter(pathCall.newParticle)) + 2
    /\ SubSeq(pathOut.val, Len(pathOut.val) - 1, Len(pathOut.val))
           = <<"/", "a">>


(***************************************************************************)
(* The folder resource of vsphere/resource_vsphere_folder.go.              *)
(*                                                                         *)
(* One vsphere_folder resource runs its create, read, update and delete    *)
(* operations, one at a time, against the remote inventory.  Every remote  *)
(* call is a step of its own and may fail.  The inventory is shared: other *)
(* resources of the configuration and other clients create folders in it   *)
(* while an operation runs.  The inventory holds the folders under the     *)
(* root folder of the resource's datacenter and folder type; that root     *)
(* folder is number 0.  A datacenter is identified by its inventory path.  *)
(***************************************************************************)
\* The inventory paths of the datacenters: "/dc1" and, in the datacenter
\* folder "vms", "/vms/dc1".
DatacenterPaths ==
    {<<"/", "d", "c", "1">>, <<"/", "v", "m", "s", "/", "d", "c", "1">>}

FolderNames == {<<"a">>, <<"b">>}

\* The relative folder paths of at most n segments.
RECURSIVE FolderPaths(_)
FolderPaths(n) ==
    IF n = 0 THEN {}
    ELSE FolderNames \cup FolderPaths(n - 1)
           \cup {q \o <<"/">> \o m : q \in FolderPaths(n - 1), m \in FolderNames}

\* path.Base: the last element of p.
Base(p) ==
    IF p = <<>> THEN <<".">>
    ELSE IF \A k \in 1..Len(p) : p[k] = "/" THEN <<"/">>
    ELSE LET last == CHOOSE k \in 1..Len(p) :
                         p[k] # "/" /\ \A j \in (k + 1)..Len(p) : p[j] = "/"
             stripped == SubSeq(p, 1, last)
         IN SubSeq(stripped, LastIndex(stripped, <<"/">>) + 1, last)

\* The root folder of the resource's datacenter and folder type.
Root ==
    RootFromDatacenter(resourceData.type,
                       Datacenter(resourceData.datacenter_id))

\* folder.InventoryPath of folder i in the inventory v.
RECURSIVE InventoryPath(_, _)
InventoryPath(v, i) ==
    IF i = 0 THEN Root
    ELSE InventoryPath(v, v[i].parent) \o <<"/">> \o v[i].name

\* The folders of the inventory v, the root folder included.
Folders(v) == {0} \cup {i \in 1..MaxFolders : v[i].exists}

\* f.Children: the folders directly in folder i.
Children(v, i) == {j \in 1..MaxFolders : v[j].exists /\ v[j].parent = i}

\* Everything a Destroy of folder i removes beside the folder itself.
RECURSIVE Descendants(_, _)
Descendants(v, i) ==
    Children(v, i) \cup UNION {Descendants(v, j) : j \in Children(v, i)}

\* The number of folders on the way from the root folder to folder i.
RECURSIVE Depth(_, _)
Depth(v, i) == IF i = 0 THEN 0 ELSE 1 + Depth(v, v[i].parent)

\* Folder pa has no folder named n: the inventory accepts n as a new name
\* in it.
NameIsFree(v, pa, n) == \A j \in Children(v, pa) : v[j].name # n

\* folderFromAbsolutePath: the folders finder.Folder finds at path.
folderFromAbsolutePath(v, path) ==
    {i \in Folders(v) : InventoryPath(v, i) = path}

\* parentFolderFromPath for a folder type other than datacenter.
parentFolderFromPath(v, p) ==
    folderFromAbsolutePath(v,
        Dir(PathFromDatacenter(resourceData.type,
                               Datacenter(resourceData.datacenter_id), p)))

\* Mutant of NeedsRename: the folder is renamed on every change of path.
NeedsRename_Always(oldp, newp) == TRUE

\* oldn != newn: the base name of the path has changed.
NeedsRename(oldp, newp) == Base(oldp) # Base(newp)

\* Mutant of Renamed: the rename leaves the inventory as it is.
Renamed_Not(v, i, n) == v

\* The inventory v after renameObject has renamed folder i to n.
Renamed(v, i, n) == [v EXCEPT ![i].name = n]

\* d.HasChange("path")
HasChange(oldp, newp) == oldp # newp

\* No operation is running.
FolderIdle == op.pc \in {"none", "done"}

\* The running operation returns e from step `at`.
Finish(at, e) ==
    /\ op' = [NoOp EXCEPT !.kind = op.kind, !.pc = "done",
                         !.checked = op.checked]
    /\ outcome' = [kind |-> op.kind, at |-> at, err |-> e]

\* The error a remote call returns when it fails.
RemoteErr == Error("remote call failed")

NotFoundErr == Error("folder not found")

NotEmptyErr ==
    Error("folder is not empty, please remove all items before deleting")


(***************************************************************************)
(* The configuration and the other users of the inventory.                 *)
(***************************************************************************)
\* The configuration gives the resource its type and its datacenter_id
\* (both ForceNew: they stay as they are for the life of the resource).
NewResource ==
    /\ resourceData = NoResource
    /\ \E ft \in Particles, dc \in DatacenterPaths :
         resourceData' = [NoResource EXCEPT !.type = ft, !.datacenter_id = dc]
    /\ UNCHANGED <<inv, op, issued, outcome, atStart, collateral, opsStarted>>
    /\ UNCHANGED <<customizationVars, pathVars>>

\* Another resource or another client creates a folder in the inventory.
OtherClientCreatesFolder ==
    /\ resourceData # NoResource
    /\ \E i \in 1..MaxFolders, pa \in Folders(inv), n \in FolderNames :
         /\ ~inv[i].exists
         /\ \A j \in 1..(i - 1) : inv[j].exists
         /\ Depth(inv, pa) < MaxDepth
         /\ NameIsFree(inv, pa, n)
         /\ inv' = [inv EXCEPT ![i] = [exists |-> TRUE, name |-> n,
                                       parent |-> pa]]
    /\ UNCHANGED <<resourceData, op, issued, outcome, atStart, collateral,
                   opsStarted>>
    /\ UNCHANGED <<customizationVars, pathVars>>

(***************************************************************************)
(* resourceVSphereFolderCreate                                             *)
(***************************************************************************)
\* Create is called with the path of the configuration.
BeginCreate ==
    /\ FolderIdle
    /\ resourceData # NoResource
    /\ resourceData.id = 0
    /\ \E p \in FolderPaths(MaxDepth), tags \in BOOLEAN :
         op' = [NoOp EXCEPT !.kind = "create", !.pc = "parent", !.path = p,
                            !.tags = tags]
    /\ issued' = <<>>
    /\ outcome' = NoOutcome
    /\ atStart' = NoFolder
    /\ opsStarted < MaxOps
    /\ opsStarted' = opsStarted + 1
    /\ UNCHANGED <<resourceData, inv, collateral>>
    /\ UNCHANGED <<customizationVars, pathVars>>

\* parent, err := parentFolderFromPath(client, p, ft, dc)
CreateResolveParent ==
    /\ op.kind = "create"
    /\ op.pc = "parent"
    /\ \/ Finish("parent", IF parentFolderFromPath(inv, op.path) = {}
                           THEN NotFoundErr ELSE RemoteErr)
       \/ /\ \E pa \in parentFolderFromPath(inv, op.path) :
               op' = [op EXCEPT !.pc = "create", !.newpa = pa]
          /\ UNCHANGED outcome
    /\ UNCHANGED <<resourceData, inv, issued, atStart, collateral, opsStarted>>
    /\ UNCHANGED <<customizationVars, pathVars>>

\* folder, err := parent.CreateFolder(ctx, path.Base(p)); d.SetId(...)
CreateFolder ==
    /\ op.kind = "create"
    /\ op.pc = "create"
    /\ issued' = Append(issued, "create")
    /\ \/ /\ Finish("create", RemoteErr)
          /\ UNCHANGED <<resourceData, inv>>
       \/ /\ NameIsFree(inv, op.newpa, Base(op.path))
          /\ \E i \in 1..MaxFolders :
               /\ ~inv[i].exists
               /\ \A j \in 1..(i - 1) : inv[j].exists
               /\ inv' = [inv EXCEPT ![i] = [exists |-> TRUE,
                                             name |-> Base(op.path),
                                             parent |-> op.newpa]]
               /\ resourceData' = [resourceData EXCEPT !.id = i]
          /\ op' = [op EXCEPT !.pc = IF op.tags THEN "tags" ELSE "read"]
          /\ UNCHANGED outcome
    /\ UNCHANGED <<atStart, collateral, opsStarted>>
    /\ UNCHANGED <<customizationVars, pathVars>>

\* processTagDiff(tagsClient, d, folder), in Create and in Update.
ProcessTagDiff ==
    /\ op.pc = "tags"
    /\ issued' = Append(issued, "tags")
    /\ \/ Finish("tags", RemoteErr)
       \/ /\ op' = [op EXCEPT !.pc = IF op.kind = "create" THEN "read"
                                     ELSE "path"]
          /\ UNCHANGED outcome
    /\ UNCHANGED <<resourceData, inv, atStart, collateral, opsStarted>>
    /\ UNCHANGED <<customizationVars, pathVars>>

(***************************************************************************)
(* resourceVSphereFolderRead                                               *)
(***************************************************************************)
\* Read is called to refresh the state.
BeginRead ==
    /\ FolderIdle
    /\ resourceData.id # 0
    /\ op' = [NoOp EXCEPT !.kind = "read", !.pc = "read"]
    /\ issued' = <<>>
    /\ outcome' = NoOutcome
    /\ atStart' = inv[resourceData.id]
    /\ opsStarted < MaxOps
    /\ opsStarted' = opsStarted + 1
    /\ UNCHANGED <<resourceData, inv, collateral>>
    /\ UNCHANGED <<customizationVars, pathVars>>

\* The body of Read.  getDatacenter finds a datacenter at the path it is
\* given or returns an error.
FolderRead ==
    /\ op.pc = "read"
    /\ LET p == InventoryPath(inv, resourceData.id)
           dcp == SplitDatacenter(resourceData.type, p)
           relative == SplitRelative(resourceData.type, p)
       IN \/ /\ Finish("locate", RemoteErr)
             /\ UNCHANGED resourceData
          \/ /\ dcp.err # Nil
             /\ Finish("datacenter path", dcp.err)
             /\ UNCHANGED resourceData
          \/ /\ dcp.err = Nil
             /\ dcp.val \notin DatacenterPaths
             /\ Finish("datacenter", NotFoundErr)
             /\ UNCHANGED resourceData
          \/ /\ dcp.err = Nil
             /\ dcp.val \in DatacenterPaths
             /\ relative.err = Nil
             /\ resourceData' =
                  [resourceData EXCEPT !.path = normalizeFolderPath(relative.val),
                                       !.datacenter_id = dcp.val]
             /\ Finish("read", Nil)
    /\ UNCHANGED <<inv, issued, atStart, collateral, opsStarted>>
    /\ UNCHANGED <<customizationVars, pathVars>>


(***************************************************************************)
(* resourceVSphereFolderUpdate                                             *)
(***************************************************************************)
\* Update is called with the new path of the configuration, because the
\* path or the tags have changed; it locates the folder by its ID.
BeginUpdate ==
    /\ FolderIdle
    /\ resourceData.id # 0
    /\ \E newp \in FolderPaths(MaxDepth), tags \in BOOLEAN :
         /\ HasChange(resourceData.path, newp) \/ tags
         /\ op' = [NoOp EXCEPT !.kind = "update",
                               !.pc = IF tags THEN "tags" ELSE "path",
                               !.path = newp, !.tags = tags]
    /\ issued' = <<>>
    /\ outcome' = NoOutcome
    /\ atStart' = inv[resourceData.id]
    /\ opsStarted < MaxOps
    /\ opsStarted' = opsStarted + 1
    /\ UNCHANGED <<resourceData, inv, collateral>>
    /\ UNCHANGED <<customizationVars, pathVars>>

\* if d.HasChange("path"): oldpa and newpa are looked up from the old and
\* the new path.
UpdateResolveParents ==
    /\ op.kind = "update"
    /\ op.pc = "path"
    /\ IF ~HasChange(resourceData.path, op.path)
       THEN /\ op' = [op EXCEPT !.pc = "read"]
            /\ UNCHANGED outcome
       ELSE \/ Finish("parent",
                      IF \/ parentFolderFromPath(inv, resourceData.path) = {}
                         \/ parentFolderFromPath(inv, op.path) = {}
                      THEN NotFoundErr ELSE RemoteErr)
            \/ /\ \E oldpa \in parentFolderFromPath(inv, resourceData.path),
                     newpa \in parentFolderFromPath(inv, op.path) :
                    op' = [op EXCEPT !.pc = "rename", !.oldpa = oldpa,
                                     !.newpa = newpa]
               /\ UNCHANGED outcome
    /\ UNCHANGED <<resourceData, inv, issued, atStart, collateral, opsStarted>>
    /\ UNCHANGED <<customizationVars, pathVars>>

\* if oldn != newn: renameObject(client, folder.Reference(), newn)
UpdateRename ==
    /\ op.kind = "update"
    /\ op.pc = "rename"
    /\ IF NeedsRename(resourceData.path, op.path)
       THEN /\ issued' = Append(issued, "rename")
            /\ \/ /\ Finish("rename", RemoteErr)
                  /\ UNCHANGED inv
               \/ /\ NameIsFree(inv, inv[resourceData.id].parent, Base(op.path))
                  /\ inv' = Renamed(inv, resourceData.id, Base(op.path))
                  /\ op' = [op EXCEPT !.pc = "move"]
                  /\ UNCHANGED outcome
       ELSE /\ op' = [op EXCEPT !.pc = "move"]
            /\ UNCHANGED <<inv, issued, outcome>>
    /\ UNCHANGED <<resourceData, atStart, collateral, opsStarted>>
    /\ UNCHANGED <<customizationVars, pathVars>>

\* if oldpa != newpa: newpa.MoveInto(ctx, folder) and task.Wait; then Read.
UpdateMove ==
    /\ op.kind = "update"
    /\ op.pc = "move"
    /\ IF op.oldpa # op.newpa
       THEN /\ issued' = Append(issued, "move")
            /\ \/ /\ Finish("move", RemoteErr)
                  /\ UNCHANGED inv
               \/ /\ op.newpa # resourceData.id
                  /\ op.newpa \notin Descendants(inv, resourceData.id)
                  /\ NameIsFree(inv, op.newpa, inv[resourceData.id].name)
                  /\ inv' = [inv EXCEPT ![resourceData.id].parent = op.newpa]
                  /\ op' = [op EXCEPT !.pc = "read"]
                  /\ UNCHANGED outcome
       ELSE /\ op' = [op EXCEPT !.pc = "read"]
            /\ UNCHANGED <<inv, issued, outcome>>
    /\ UNCHANGED <<resourceData, atStart, collateral, opsStarted>>
    /\ UNCHANGED <<customizationVars, pathVars>>

(***************************************************************************)
(* resourceVSphereFolderDelete                                             *)
(***************************************************************************)
\* Delete is called; it locates the folder by its ID.
BeginDelete ==
    /\ FolderIdle
    /\ resourceData.id # 0
    /\ op' = [NoOp EXCEPT !.kind = "delete", !.pc = "children"]
    /\ issued' = <<>>
    /\ outcome' = NoOutcome
    /\ atStart' = inv[resourceData.id]
    /\ collateral' = 0
    /\ opsStarted < MaxOps
    /\ opsStarted' = opsStarted + 1
    /\ UNCHANGED <<resourceData, inv>>
    /\ UNCHANGED <<customizationVars, pathVars>>

\* ne, err := folderHasChildren(folder), and the two returns after it.
DeleteCheckChildren ==
    /\ op.kind = "delete"
    /\ op.pc = "children"
    /\ \/ /\ op' = [op EXCEPT !.pc = "done", !.checked = "failed"]
          /\ outcome' = [kind |-> "delete", at |-> "children",
                         err |-> RemoteErr]
       \/ /\ Children(inv, resourceData.id) # {}
          /\ op' = [op EXCEPT !.pc = "done", !.checked = "not empty"]
          /\ outcome' = [kind |-> "delete", at |-> "children",
                         err |-> NotEmptyErr]
       \/ /\ Children(inv, resourceData.id) = {}
          /\ op' = [op EXCEPT !.pc = "destroy", !.checked = "empty"]
          /\ UNCHANGED outcome
    /\ UNCHANGED <<resourceData, inv, issued, atStart, collateral, opsStarted>>
    /\ UNCHANGED <<customizationVars, pathVars>>

\* task, err := folder.Destroy(ctx) and task.Wait: the inventory destroys
\* the folder with everything in it.
DeleteDestroy ==
    /\ op.kind = "delete"
    /\ op.pc = "destroy"
    /\ issued' = Append(issued, "destroy")
    /\ \/ /\ Finish("destroy", RemoteErr)
          /\ UNCHANGED <<resourceData, inv, collateral>>
       \/ /\ inv' = [i \in 1..MaxFolders |->
                       IF i \in {resourceData.id}
                                  \cup Descendants(inv, resourceData.id)
                       THEN NoFolder ELSE inv[i]]
          /\ collateral' = Cardinality(Descendants(inv, resourceData.id))
          /\ resourceData' = [resourceData EXCEPT !.id = 0, !.path = <<>>]
          /\ Finish("destroy", Nil)
    /\ UNCHANGED <<atStart, opsStarted>>
    /\ UNCHANGED <<customizationVars, pathVars>>

FolderNext ==
    \/ NewResource
    \/ OtherClientCreatesFolder
    \/ BeginCreate
    \/ CreateResolveParent
    \/ CreateFolder
    \/ ProcessTagDiff
    \/ BeginRead
    \/ FolderRead
    \/ BeginUpdate
    \/ UpdateResolveParents
    \/ UpdateRename
    \/ UpdateMove
    \/ BeginDelete
    \/ DeleteCheckChildren
    \/ DeleteDestroy

FolderSpec == Init /\ [][FolderNext]_vars

FolderTypeOK ==
    /\ op.kind \in {"none", "create", "read", "update", "delete"}
    /\ resourceData.id \in 0..MaxFolders
    /\ resourceData.id # 0 => inv[resourceData.id].exists
    /\ \A i \in 1..MaxFolders :
         inv[i].exists => inv[i].parent \in Folders(inv) \ {i}
    /\ collateral \in 0..MaxFolders


(***************************************************************************)
(* Vocabulary of the folder properties.                                    *)
(***************************************************************************)
Issued(m) == \E k \in 1..Len(issued) : issued[k] = m

\* The operation `kind` has returned.
Ended(kind) == op.pc = "done" /\ outcome.kind = kind

\* A step of the running update issues the remote mutation m.
UpdateIssues(m) ==
    /\ op.kind = "update"
    /\ op.pc \in {"tags", "path", "rename", "move"}
    /\ issued' = Append(issued, m)

\* The body of Read comes to a result of its own: it returns, and not
\* because a remote call failed.
ReadDecides ==
    /\ op.pc = "read"
    /\ op'.pc = "done"
    /\ outcome'.at # "locate"

(***************************************************************************)
(* C22.  resourceVSphereFolderDelete never destroys a folder that has      *)
(* children: Destroy is issued only after the children check returned an   *)
(* empty list without error; when the folder has children, or the check    *)
(* fails, the operation returns an error and the folder and all its        *)
(* children still exist afterwards.                                        *)
(* The check and the Destroy are two remote calls: a folder created in     *)
(* between is destroyed with its parent.                                   *)
(***************************************************************************)
C22_NeverDestroysChildren ==
    /\ collateral = 0
    /\ Issued("destroy") => op.checked = "empty"
    /\ (Ended("delete") /\ op.checked \in {"failed", "not empty"})
         => /\ outcome.err # Nil
            /\ issued = <<>>
            /\ inv[resourceData.id] = atStart
            /\ op.checked = "not empty" => Children(inv, resourceData.id) # {}

\* What holds of the code: Destroy is issued only after the check returned
\* an empty list, and a failed or non-empty check ends the operation with
\* an error and nothing destroyed.
C22_DestroyOnlyAfterEmptyCheck ==
    /\ Issued("destroy") => op.checked = "empty"
    /\ (Ended("delete") /\ op.checked \in {"failed", "not empty"})
         => /\ outcome.err # Nil
            /\ issued = <<>>
            /\ inv[resourceData.id] = atStart
            /\ op.checked = "not empty" => Children(inv, resourceData.id) # {}

(***************************************************************************)
(* C23.  resourceVSphereFolderUpdate performs its remote mutations in a    *)
(* fixed order: pending tag changes first, then a rename, then a move; the *)
(* rename is issued only when the base name of the path changed, the move  *)
(* only when the old and new parent folders differ, and neither is issued  *)
(* when the path attribute is unchanged.                                   *)
(***************************************************************************)
C23_UpdateOrder ==
    [][/\ UpdateIssues("tags") => issued = <<>>
       /\ UpdateIssues("rename") =>
            /\ ~Issued("rename") /\ ~Issued("move")
            /\ Base(resourceData.path) # Base(op.path)
            /\ resourceData.path # op.path
       /\ UpdateIssues("move") =>
            /\ ~Issued("move")
            /\ op.oldpa # op.newpa
            /\ resourceData.path # op.path
       /\ (op.kind = "update" /\ issued' # issued /\ op.pc \notin {"none", "done"})
            => \E m \in {"tags", "rename", "move"} : UpdateIssues(m)]_vars

\* An update has changed the tags, renamed the folder and moved it, and has
\* returned without error.
C23_Witness ==
    /\ Ended("update")
    /\ outcome.err = Nil
    /\ issued = <<"tags", "rename", "move">>

(***************************************************************************)
(* C25.  For every datacenter inventory path D, every non-datacenter       *)
(* folder type T and every normalized relative path p, reading a folder    *)
(* whose inventory path is D + "/" + T + "/" + p (the path produced by     *)
(* creating it with path p) resolves the datacenter from exactly D and     *)
(* sets the state attribute path to exactly p, so create followed by read  *)
(* leaves path unchanged.                                                  *)
(* Read splits the inventory path at the first "/" + T, which lies inside  *)
(* D when a segment of D begins with the name of T ("/vms/dc1", vm).       *)
(***************************************************************************)
C25_ReadRecoversPath ==
    [][ReadDecides =>
          /\ outcome'.err = Nil
          /\ resourceData'.datacenter_id = resourceData.datacenter_id
          /\ InventoryPath(inv, resourceData.id)
               = Root \o <<"/">> \o resourceData'.path
          /\ op.kind = "create" => resourceData'.path = op.path]_vars

\* What holds of the code: the same for every D that is free of "/" + T.
C25_ReadRecoversPathOfCleanDatacenter ==
    [][(/\ ReadDecides
        /\ Occurrences(resourceData.datacenter_id,
                       Delimiter(resourceData.type)) = 0) =>
          /\ outcome'.err = Nil
          /\ resourceData'.datacenter_id = resourceData.datacenter_id
          /\ InventoryPath(inv, resourceData.id)
               = Root \o <<"/">> \o resourceData'.path
          /\ op.kind = "create" => resourceData'.path = op.path]_vars

(***************************************************************************)
(* C26.  If resourceVSphereFolderUpdate returns an error from its          *)
(* path-change step, the remote folder still has the name and the parent   *)
(* folder it had before the call: the rename and the move take effect      *)
(* together or not at all.                                                 *)
(* The rename is issued and completed before the move is tried, and        *)
(* nothing undoes it when the move fails.                                  *)
(***************************************************************************)
\* Update has returned an error from its path-change step.
PathChangeFailed ==
    /\ Ended("update")
    /\ outcome.err # Nil
    /\ outcome.at \in {"parent", "rename", "move"}

====
